---------------------------- MODULE Spec2Model ----------------------------
(***************************************************************************)
(* Model of lerobot/scripts/record_and_replay_teleop_dataset.py:           *)
(* the __main__ program (one teleop run, then two replay runs), the        *)
(* control loop run_sim_while_recording_dataset, the pynput key listener   *)
(* thread that writes the shared EpisodeState, the ReplayHelper cursor and *)
(* the accumulators of OutputHelper.                                       *)
(*                                                                         *)
(* Positions x, y, z and the gripper value are counted in hundredths:      *)
(* 0.14 is 14, one positional increment (0.01) is 1, one gripper           *)
(* increment (0.1) is 10.                                                  *)
(***************************************************************************)
EXTENDS Integers, Sequences, FiniteSets, TLC

----------------------------------------------------------------------------
(* Bounds of the model *)

\* steps a teleop episode takes before the operator must press a key
MaxSteps == 2

\* lifecycle key events (DELETE, HOME, END, release of ESC) in a program run
MaxKeys == 3

\* directional key presses in a program run
MaxDirKeys == 1

\* episodes of the recording a replay run starts from
MaxReplayEpisodes == 2

\* presses of END by an operator who otherwise only steers
MaxEndKeys == 1

\* directional key presses while one teleop episode is followed
MaxPresses == 2

----------------------------------------------------------------------------
(* Keys and the action vector *)

DirKeys == {"up", "down", "left", "right", "page_down", "page_up", "cmd", "shift"}

\* on_press, lines 362-380: component (1-based) and increment of each key
KeyComponent(key) ==
    CASE key \in {"left", "right"}          -> 1
      [] key \in {"up", "down"}             -> 2
      [] key \in {"page_down", "page_up"}   -> 3
      [] key \in {"cmd", "shift"}           -> 4

KeyDelta(key) ==
    CASE key = "up"        -> 1
      [] key = "down"      -> -1
      [] key = "left"      -> -1
      [] key = "right"     -> 1
      [] key = "page_down" -> -1
      [] key = "page_up"   -> 1
      [] key = "cmd"       -> -10
      [] key = "shift"     -> 10

\* set_up_next_episode, lines 469-472
StartAction == <<0, 14, 17, 0>>

\* episode_state.teleoperation_action = None
NoAction == <<>>

\* no directional key handled yet
NoPresses == [key \in DirKeys |-> 0]

----------------------------------------------------------------------------
(* Datasets *)

EmptyDataset ==
    [action |-> <<>>, episode_index |-> <<>>, frame_index |-> <<>>,
     timestamp |-> <<>>, next_done |-> <<>>, index |-> <<>>]

\* LeRobotDataset.num_samples
NumSamples(d) == Len(d.index)

NoReplayHelper == [present |-> FALSE, dataset |-> EmptyDataset, frame_index |-> 0]

VARIABLES
    teleop_method,           \* args.teleop_method
    push_to_hub,             \* args.push_to_hub
    io_log,                  \* storage and hub calls of this run, in call order
    main_pc,                 \* statement of __main__ being executed
    pc,                      \* position in run_sim_while_recording_dataset
    listener,                \* keyboard.Listener thread
    hpc,                     \* position of the listener thread inside on_press
    teleoperation_action,    \* episode_state.teleoperation_action
    is_dropping_episode,     \* episode_state.is_dropping_episode
    is_concluding_episode,   \* episode_state.is_concluding_episode
    is_stopping,             \* episode_state.is_stopping
    dataset_counter,         \* output_helper.dataset_counter
    ep_dicts,                \* output_helper.ep_dicts
    episode_data_index,      \* output_helper.episode_data_index
    episode_fps,             \* output_helper.episode_fps
    id_from,                 \* output_helper.id_from
    id_to,                   \* output_helper.id_to
    replay_helper,           \* the ReplayHelper of the run, if any
    episode_counter,         \* local of run_sim_while_recording_dataset
    step_counter,            \* local
    action,                  \* local: the object get_next_action_in_episode returned
    actions,                 \* local buffer
    timestamps,              \* local buffer
    observations,            \* local buffers (one list, all keys together)
    info_timestamp,          \* local: info["timestamp"] of the last env.step
    env_time,                \* the environment's clock
    disk,                    \* datasets persisted, by run index
    lerobot_dataset,         \* __main__'s lerobot_dataset (result of the teleop run)
    keys_left,               \* lifecycle key events the operator may still make
    dir_keys_left,           \* directional key presses the operator may still make
    phase,                   \* history: state of the top-level state machine
    applied,                 \* history: actions given to env.step in this run
    outcomes,                \* history: how each concluded episode of this run ended
    key_event_in_run,        \* history: a key handler wrote episode state in this run
    episodes_started,        \* history: episodes set up in this run
    end_episode,             \* history: episode in which END was pressed mid-episode
    delete_pressed,          \* history: DELETE was pressed since the episode was set up
    steps_taken,             \* history: env.step calls since the episode was set up
    pressed_in_episode,      \* history: a key was pressed since the episode was set up
    presses                  \* history: presses of each directional key handled
                             \*   since the action vector was last initialised

code_vars == <<teleop_method, push_to_hub, io_log, main_pc, pc, listener, hpc, teleoperation_action,
               is_dropping_episode, is_concluding_episode, is_stopping,
               dataset_counter, ep_dicts, episode_data_index, episode_fps,
               id_from, id_to, replay_helper, episode_counter, step_counter,
               action, actions, timestamps, observations, info_timestamp,
               env_time, disk,
               lerobot_dataset>>

history_vars == <<keys_left, dir_keys_left, phase, applied, outcomes,
                  key_event_in_run, episodes_started, end_episode,
                  delete_pressed, steps_taken, pressed_in_episode, presses>>

vars == <<code_vars, history_vars>>

flags == <<is_dropping_episode, is_concluding_episode, is_stopping>>

accumulators == <<ep_dicts, episode_data_index, episode_fps, id_from, id_to>>

Accumulators ==
    [ep_dicts |-> ep_dicts, episode_data_index |-> episode_data_index,
     episode_fps |-> episode_fps, id_from |-> id_from, id_to |-> id_to]

locals == <<episode_counter, step_counter, action, actions, timestamps, observations,
            info_timestamp, env_time>>

main_state == <<teleop_method, push_to_hub, io_log, main_pc, dataset_counter, disk, lerobot_dataset,
                replay_helper>>

----------------------------------------------------------------------------
\* the program as it is started: the module-level objects, nothing run yet
InitProgram ==
    /\ teleop_method \in {"keyboard", "joystick"}
    /\ push_to_hub \in BOOLEAN
    /\ io_log = <<>>
    /\ main_pc = "set_up_teleop"
    /\ pc = "idle"
    /\ listener = "not_started"
    /\ hpc = "idle"
    /\ teleoperation_action = NoAction
    /\ is_dropping_episode = FALSE
    /\ is_concluding_episode = FALSE
    /\ is_stopping = FALSE
    /\ dataset_counter = 0
    /\ ep_dicts = <<>>
    /\ episode_data_index = [from |-> <<>>, to |-> <<>>]
    /\ episode_fps = <<>>
    /\ id_from = 0
    /\ id_to = 0
    /\ replay_helper = NoReplayHelper
    /\ episode_counter = 0
    /\ step_counter = 0
    /\ action = [ref |-> FALSE, value |-> NoAction]
    /\ actions = <<>>
    /\ timestamps = <<>>
    /\ observations = <<>>
    /\ info_timestamp = 0
    /\ env_time = 0
    /\ disk = [k \in 1..3 |-> EmptyDataset]
    /\ lerobot_dataset = EmptyDataset
    /\ phase = "NOT_RUNNING"
    /\ applied = <<>>
    /\ outcomes = <<>>
    /\ key_event_in_run = FALSE
    /\ episodes_started = 0
    /\ end_episode = 0
    /\ delete_pressed = FALSE
    /\ steps_taken = 0
    /\ pressed_in_episode = FALSE
    /\ presses = NoPresses

Init ==
    /\ InitProgram
    /\ keys_left = MaxKeys
    /\ dir_keys_left = MaxDirKeys

----------------------------------------------------------------------------
(* The process and the listener thread *)

\* the Python process has neither finished __main__ nor died of an exception
ProcessAlive == main_pc \notin {"done", "aborted"} /\ pc # "crashed"

IsTeleoperating == ~replay_helper.present

InnerLoopPcs == {"inner_check", "get_next_action", "env_step", "store_data"}

\* the listener thread takes the next event off its queue
ListenerReady == ProcessAlive /\ listener = "running" /\ hpc = "idle"

\* mutant: the component is kept within one increment of its start value
Nudge_clipped(vec, key) ==
    LET c == KeyComponent(key)
        v == vec[c] + KeyDelta(key)
        d == IF KeyDelta(key) < 0 THEN -KeyDelta(key) ELSE KeyDelta(key)
    IN [vec EXCEPT ![c] = IF v > StartAction[c] + d THEN StartAction[c] + d
                          ELSE IF v < StartAction[c] - d THEN StartAction[c] - d
                          ELSE v]

\* the value of the shared vector after one directional key press
Nudge(vec, key) ==
    [vec EXCEPT ![KeyComponent(key)] = @ + KeyDelta(key)]

\* on_press, lines 362-380. With teleoperation_action None the subscript
\* raises TypeError inside the callback, which ends the listener thread.
on_press_directional(key) ==
    /\ ListenerReady
    /\ dir_keys_left > 0
    /\ dir_keys_left' = dir_keys_left - 1
    /\ pressed_in_episode' = TRUE
    /\ IF teleoperation_action = NoAction
          THEN /\ listener' = "failed"
               /\ UNCHANGED <<teleoperation_action, key_event_in_run, presses>>
          ELSE /\ teleoperation_action' = Nudge(teleoperation_action, key)
               /\ key_event_in_run' = TRUE
               /\ presses' = [presses EXCEPT ![key] = @ + 1]
               /\ UNCHANGED listener
    /\ UNCHANGED <<main_state, pc, hpc, flags, accumulators, locals, keys_left,
                   phase, applied, outcomes, episodes_started, end_episode,
                   delete_pressed,
                   steps_taken>>

\* on_press, lines 382-383: the first write of the DELETE branch
on_press_delete ==
    /\ ListenerReady
    /\ keys_left > 0
    /\ keys_left' = keys_left - 1
    /\ is_dropping_episode' = TRUE
    /\ hpc' = "delete_concluding"
    /\ key_event_in_run' = TRUE
    /\ pressed_in_episode' = TRUE
    /\ delete_pressed' = TRUE
    /\ end_episode' = IF end_episode = episodes_started THEN 0 ELSE end_episode
    /\ UNCHANGED <<main_state, pc, listener, teleoperation_action,
                   is_concluding_episode, is_stopping, accumulators, locals,
                   dir_keys_left, phase, applied, outcomes, episodes_started,
                   steps_taken, presses>>

\* on_press, lines 385-386
on_press_home ==
    /\ ListenerReady
    /\ keys_left > 0
    /\ keys_left' = keys_left - 1
    /\ is_concluding_episode' = TRUE
    /\ key_event_in_run' = TRUE
    /\ pressed_in_episode' = TRUE
    /\ UNCHANGED <<main_state, pc, listener, hpc, teleoperation_action,
                   is_dropping_episode, is_stopping, accumulators, locals,
                   dir_keys_left, phase, applied, outcomes, episodes_started,
                   end_episode, delete_pressed,
                   steps_taken, presses>>

\* END comes while the teleop episode is running: at least one step taken,
\* the control loop inside the inner loop, DELETE not pressed in the episode
EndPressedMidEpisode ==
    /\ IsTeleoperating
    /\ pc \in InnerLoopPcs
    /\ step_counter >= 1
    /\ ~delete_pressed
    /\ ~is_dropping_episode

\* on_press, lines 387-388: the first write of the END branch
on_press_end ==
    /\ ListenerReady
    /\ keys_left > 0
    /\ keys_left' = keys_left - 1
    /\ is_concluding_episode' = TRUE
    /\ hpc' = "end_stopping"
    /\ key_event_in_run' = TRUE
    /\ pressed_in_episode' = TRUE
    /\ end_episode' = IF EndPressedMidEpisode /\ end_episode = 0
                         THEN episodes_started ELSE end_episode
    /\ UNCHANGED <<main_state, pc, listener, teleoperation_action,
                   is_dropping_episode, is_stopping, accumulators, locals,
                   dir_keys_left, phase, applied, outcomes, episodes_started,
                   delete_pressed,
                   steps_taken, presses>>

\* on_press, line 384 (after DELETE) and line 389 (after END): the second write
on_press_second_write ==
    /\ ProcessAlive
    /\ hpc # "idle"
    /\ hpc' = "idle"
    /\ key_event_in_run' = TRUE
    /\ IF hpc = "delete_concluding"
          THEN is_concluding_episode' = TRUE /\ UNCHANGED is_stopping
          ELSE is_stopping' = TRUE /\ UNCHANGED is_concluding_episode
    /\ UNCHANGED <<main_state, pc, listener, teleoperation_action,
                   is_dropping_episode, accumulators, locals, keys_left,
                   dir_keys_left, phase, applied, outcomes, episodes_started,
                   end_episode, delete_pressed,
                   steps_taken, pressed_in_episode,
                   presses>>

\* on_release, lines 394-397: ESC sets the stop flag and returns False,
\* which stops the listener
on_release_esc ==
    /\ ListenerReady
    /\ keys_left > 0
    /\ keys_left' = keys_left - 1
    /\ is_stopping' = TRUE
    /\ listener' = "returned"
    /\ key_event_in_run' = TRUE
    /\ pressed_in_episode' = TRUE
    /\ UNCHANGED <<main_state, pc, hpc, teleoperation_action,
                   is_dropping_episode, is_concluding_episode, accumulators,
                   locals, dir_keys_left, phase, applied, outcomes,
                   episodes_started, end_episode, delete_pressed,
                   steps_taken, presses>>

----------------------------------------------------------------------------
(* ReplayHelper *)

\* dataset[k] exists
InDataset(d, k) == 0 <= k /\ k < NumSamples(d)

\* mutant: the action of the step before the cursor is returned
get_action_at_frame_before(rh) ==
    rh.dataset.action[IF rh.frame_index = 0 THEN 1 ELSE rh.frame_index]

get_action_at_frame(rh) == rh.dataset.action[rh.frame_index + 1]

\* mutant: the boundary is looked for behind the cursor
is_at_last_frame_in_episode_behind(rh) ==
    /\ rh.frame_index > 0
    /\ rh.dataset.episode_index[rh.frame_index]
          # rh.dataset.episode_index[rh.frame_index + 1]

is_at_last_frame_in_episode(rh) ==
    rh.dataset.episode_index[rh.frame_index + 1]
        # rh.dataset.episode_index[rh.frame_index + 2]

\* mutant: the cursor is compared with the number of samples
is_at_last_frame_in_dataset_late(rh) == NumSamples(rh.dataset) = rh.frame_index

is_at_last_frame_in_dataset(rh) == NumSamples(rh.dataset) - 1 = rh.frame_index

\* mutant: the cursor is left where it is
increment_frame_index_stuck(rh) == rh

increment_frame_index(rh) == [rh EXCEPT !.frame_index = @ + 1]

----------------------------------------------------------------------------
(* OutputHelper *)

\* mutant: the first step is marked instead of the last
next_done_first(num_steps) == [i \in 1..num_steps |-> i = 1]

\* lines 149-150: torch.zeros(num_steps), then next_done[-1] = True
next_done(num_steps) == [i \in 1..num_steps |-> i = num_steps]

\* lines 148-158: the columns of one episode
ep_dict(num_steps, episode_index, acts, tss) ==
    [action        |-> acts,
     episode_index |-> [i \in 1..num_steps |-> episode_index],
     frame_index   |-> [i \in 1..num_steps |-> i - 1],
     timestamp     |-> tss,
     next_done     |-> next_done(num_steps)]

RECURSIVE concatenate_column(_, _)
concatenate_column(eps, key) ==
    IF eps = <<>> THEN <<>>
    ELSE eps[1][key] \o concatenate_column(Tail(eps), key)

\* lines 245-275: every column is the concatenation of the episodes' columns
\* and "index" numbers the rows
construct_hf_dataset(eps) ==
    [action        |-> concatenate_column(eps, "action"),
     episode_index |-> concatenate_column(eps, "episode_index"),
     frame_index   |-> concatenate_column(eps, "frame_index"),
     timestamp     |-> concatenate_column(eps, "timestamp"),
     next_done     |-> concatenate_column(eps, "next_done"),
     index         |-> [i \in 1..Len(concatenate_column(eps, "frame_index")) |-> i - 1]]

\* mutant: "to" receives the episode's length instead of its end
append_range_length(index, start, num_steps) ==
    [from |-> Append(index.from, start),
     to   |-> Append(index.to, num_steps)]

\* lines 167-168: the range of the episode saved
append_range(index, start, num_steps) ==
    [from |-> Append(index.from, start),
     to   |-> Append(index.to, start + num_steps)]

\* mutant: the running row index is not set back
NoEpisodes_index_kept ==
    [ep_dicts |-> <<>>, episode_data_index |-> [from |-> <<>>, to |-> <<>>],
     episode_fps |-> <<>>, id_from |-> id_from, id_to |-> id_to]

\* lines 117-122: reset_dataset_temp_data
NoEpisodes ==
    [ep_dicts |-> <<>>, episode_data_index |-> [from |-> <<>>, to |-> <<>>],
     episode_fps |-> <<>>, id_from |-> 0, id_to |-> 0]

\* lines 162-171: the accumulators after an episode is saved; an fps is kept
\* as the pair <<num_steps, timestamps[-1]>>
saved(num_steps, episode_index, acts, tss, acc) ==
    [ep_dicts           |-> Append(acc.ep_dicts,
                                   ep_dict(num_steps, episode_index, acts, tss)),
     episode_data_index |-> append_range(acc.episode_data_index, acc.id_from,
                                         num_steps),
     episode_fps        |-> Append(acc.episode_fps, <<num_steps, tss[Len(tss)]>>),
     id_from            |-> acc.id_from + num_steps,
     id_to              |-> acc.id_from + num_steps]

\* mutant: nothing is pushed under the declared revision
maybe_push_to_hub_main_only ==
    IF ~push_to_hub THEN <<>>
    ELSE << <<"push_dataset", "main">>, <<"push_meta_data", "main">>,
            <<"push_videos", "main">> >>

\* lines 306-319
maybe_push_to_hub ==
    IF ~push_to_hub THEN <<>>
    ELSE << <<"push_dataset", "main">>, <<"push_dataset", "revision">>,
            <<"push_meta_data", "main">>, <<"push_meta_data", "revision">>,
            <<"push_videos", "main">>, <<"push_videos", "revision">> >>

\* lines 174-182: the calls of save_data_and_maybe_push_to_hub, in order
FinalizationCalls ==
    << <<"encode_video_frames", "local">>, <<"save_to_disk", "local">>,
       <<"save_meta_data", "local">> >> \o maybe_push_to_hub

----------------------------------------------------------------------------
(* __main__ *)

\* mutant: the listener is started before the method is looked at
set_up_teleop_listener_first ==
    /\ main_pc = "set_up_teleop"
    /\ teleoperation_action' = NoAction
    /\ is_dropping_episode' = FALSE
    /\ is_concluding_episode' = FALSE
    /\ is_stopping' = FALSE
    /\ listener' = "running"
    /\ main_pc' = IF teleop_method = "keyboard"
                    THEN "teleop_robot_and_record_data" ELSE "aborted"
    /\ UNCHANGED <<teleop_method, push_to_hub, io_log, dataset_counter, disk,
                   lerobot_dataset, replay_helper, pc, hpc, accumulators, locals,
                   history_vars>>

\* lines 407-419 and 339-404
set_up_teleop ==
    /\ main_pc = "set_up_teleop"
    /\ IF teleop_method = "keyboard"
          THEN /\ teleoperation_action' = NoAction
               /\ is_dropping_episode' = FALSE
               /\ is_concluding_episode' = FALSE
               /\ is_stopping' = FALSE
               /\ listener' = "running"
               /\ main_pc' = "teleop_robot_and_record_data"
          ELSE /\ main_pc' = "aborted"
               /\ UNCHANGED <<teleoperation_action, flags, listener>>
    /\ UNCHANGED <<teleop_method, push_to_hub, io_log, dataset_counter, disk,
                   lerobot_dataset, replay_helper, pc, hpc, accumulators, locals,
                   history_vars>>

\* lines 541-544: the call of run_sim_while_recording_dataset without a helper
teleop_robot_and_record_data ==
    /\ main_pc = "teleop_robot_and_record_data"
    /\ pc = "idle"
    /\ replay_helper' = NoReplayHelper
    /\ pc' = "start"
    /\ UNCHANGED <<teleop_method, push_to_hub, io_log, main_pc, dataset_counter,
                   disk, lerobot_dataset, listener, hpc, teleoperation_action,
                   flags, accumulators, locals, history_vars>>

\* line 591: listener.stop()
stop_teleoperation_fn ==
    /\ main_pc = "stop_teleoperation_fn"
    /\ listener' = IF listener = "running" THEN "stopped" ELSE listener
    /\ main_pc' = "replay_from_disk"
    /\ UNCHANGED <<teleop_method, push_to_hub, io_log, dataset_counter, disk,
                   lerobot_dataset, replay_helper, pc, hpc, teleoperation_action,
                   flags, accumulators, locals, history_vars>>

\* lines 548-556: the source is the given dataset or, when none is given, the
\* dataset stored under output_data_path, that of the run counted last
replay_dataset_actions_in_sim ==
    /\ main_pc \in {"replay_from_disk", "replay_from_memory"}
    /\ pc = "idle"
    /\ replay_helper' =
          [present |-> TRUE,
           dataset |-> IF main_pc = "replay_from_disk"
                         THEN disk[dataset_counter] ELSE lerobot_dataset,
           frame_index |-> 0]
    /\ pc' = "start"
    /\ UNCHANGED <<teleop_method, push_to_hub, io_log, main_pc, dataset_counter,
                   disk, lerobot_dataset, listener, hpc, teleoperation_action,
                   flags, accumulators, locals, history_vars>>

----------------------------------------------------------------------------
(* run_sim_while_recording_dataset *)

inputs == <<teleop_method, push_to_hub>>

listener_thread == <<listener, hpc>>

operator == <<keys_left, dir_keys_left>>

\* what an object holds: a reference is read through to what it points at
\* (the shared action vector, the environment's observation buffer)
ValueIn(obj, shared) == IF obj.ref THEN shared ELSE obj.value

Values(buffer, shared) == [i \in 1..Len(buffer) |-> ValueIn(buffer[i], shared)]

\* the action object the loop holds: in teleop the shared vector itself
ActionValue == ValueIn(action, teleoperation_action)

\* line 509: the observation env.step returns is the environment's own
\* buffer, which the next step overwrites; its content is that of the
\* environment's clock
EnvObservation == [ref |-> TRUE, value |-> 0]

\* mutant: the object itself is appended
deepcopy_aliased(obj, shared) == obj

\* lines 517-518: copy.deepcopy
deepcopy(obj, shared) == [ref |-> FALSE, value |-> ValueIn(obj, shared)]

NextMainPc ==
    CASE main_pc = "teleop_robot_and_record_data" -> "stop_teleoperation_fn"
      [] main_pc = "replay_from_disk"             -> "replay_from_memory"
      [] main_pc = "replay_from_memory"           -> "done"

\* lines 483-488: increment_dataset_counter (with reset_dataset_temp_data),
\* episode_counter = 0 and the construction and reset of the environment
begin_run ==
    /\ pc = "start"
    /\ dataset_counter' = dataset_counter + 1
    /\ ep_dicts' = NoEpisodes.ep_dicts
    /\ episode_data_index' = NoEpisodes.episode_data_index
    /\ episode_fps' = NoEpisodes.episode_fps
    /\ id_from' = NoEpisodes.id_from
    /\ id_to' = NoEpisodes.id_to
    /\ episode_counter' = 0
    /\ env_time' = 0
    /\ pc' = "reset_is_stopping"
    /\ io_log' = <<>>
    /\ phase' = "STARTING"
    /\ applied' = <<>>
    /\ outcomes' = <<>>
    /\ key_event_in_run' = FALSE
    /\ episodes_started' = 0
    /\ end_episode' = 0
    /\ delete_pressed' = FALSE
    /\ steps_taken' = 0
    /\ pressed_in_episode' = FALSE
    /\ UNCHANGED <<presses, inputs, main_pc, disk, lerobot_dataset, replay_helper,
                   listener_thread, teleoperation_action, flags, step_counter,
                   action, actions, timestamps, observations, info_timestamp,
                   operator>>

\* line 490
reset_is_stopping ==
    /\ pc = "reset_is_stopping"
    /\ is_stopping' = FALSE
    /\ pc' = "outer_loop"
    /\ UNCHANGED <<main_state, listener_thread, teleoperation_action,
                   is_dropping_episode, is_concluding_episode, accumulators,
                   locals, history_vars>>

\* line 491: while not episode_state.is_stopping; on exit the loop is left for
\* line 536
outer_loop ==
    /\ pc = "outer_loop"
    /\ IF is_stopping
          THEN pc' = "save_data_and_maybe_push_to_hub" /\ phase' = "STOPPED"
          ELSE pc' = "set_up_next_episode" /\ UNCHANGED phase
    /\ UNCHANGED <<main_state, listener_thread, teleoperation_action, flags,
                   accumulators, locals, operator, applied, outcomes,
                   key_event_in_run, episodes_started, end_episode,
                   delete_pressed,
                   steps_taken, pressed_in_episode,
                   presses>>

\* mutant: the buffers of the previous episode are kept
new_buffer_kept(old) == old

\* lines 499-500: actions = [], timestamps = []
new_buffer(old) == <<>>

\* lines 492-500 and 461-479: env.reset(), the start action, empty buffers
set_up_next_episode ==
    /\ pc = "set_up_next_episode"
    /\ env_time' = 0
    /\ teleoperation_action' = IF IsTeleoperating THEN StartAction ELSE NoAction
    /\ actions' = new_buffer(actions)
    /\ timestamps' = new_buffer(timestamps)
    /\ observations' = new_buffer(observations)
    /\ pc' = "reset_is_dropping_episode"
    /\ phase' = "RUNNING_EPISODE"
    /\ episodes_started' = episodes_started + 1
    /\ delete_pressed' = FALSE
    /\ steps_taken' = 0
    /\ pressed_in_episode' = FALSE
    /\ presses' = NoPresses
    /\ UNCHANGED <<main_state, listener_thread, flags, accumulators,
                   episode_counter, step_counter, action, info_timestamp,
                   operator, applied, outcomes, key_event_in_run, end_episode>>

\* line 502
reset_is_dropping_episode ==
    /\ pc = "reset_is_dropping_episode"
    /\ is_dropping_episode' = FALSE
    /\ pc' = "reset_is_concluding_episode"
    /\ UNCHANGED <<main_state, listener_thread, teleoperation_action,
                   is_concluding_episode, is_stopping, accumulators, locals,
                   history_vars>>

\* lines 503-504
reset_is_concluding_episode ==
    /\ pc = "reset_is_concluding_episode"
    /\ is_concluding_episode' = FALSE
    /\ step_counter' = 0
    /\ pc' = "inner_loop"
    /\ UNCHANGED <<main_state, listener_thread, teleoperation_action,
                   is_dropping_episode, is_stopping, accumulators,
                   episode_counter, action, actions, timestamps, observations,
                   info_timestamp,
                   env_time, history_vars>>

\* line 505: while not episode_state.is_concluding_episode. A teleop episode
\* is followed for MaxSteps steps; replay is bounded by its dataset.
inner_loop ==
    /\ pc = "inner_loop"
    /\ IF is_concluding_episode
          THEN pc' = "if_is_dropping_episode"
          ELSE /\ IsTeleoperating => step_counter < MaxSteps
               /\ pc' = "get_next_action_in_episode"
    /\ UNCHANGED <<main_state, listener_thread, teleoperation_action, flags,
                   accumulators, locals, history_vars>>

\* mutant: the episode boundary is looked for before the end of the dataset
get_next_action_replay_boundary_first ==
    LET rh == replay_helper IN
    IF ~InDataset(rh.dataset, rh.frame_index)
      THEN /\ pc' = "crashed"
           /\ UNCHANGED <<action, is_concluding_episode, is_stopping,
                          replay_helper>>
      ELSE /\ action' = [ref |-> FALSE, value |-> get_action_at_frame(rh)]
           /\ IF ~InDataset(rh.dataset, rh.frame_index + 1)
                THEN /\ pc' = "crashed"
                     /\ UNCHANGED <<is_concluding_episode, is_stopping,
                                    replay_helper>>
                ELSE IF is_at_last_frame_in_episode(rh)
                  THEN /\ is_concluding_episode' = TRUE
                       /\ replay_helper' = increment_frame_index(rh)
                       /\ pc' = "env_step"
                       /\ UNCHANGED is_stopping
                  ELSE IF is_at_last_frame_in_dataset(rh)
                    THEN /\ is_concluding_episode' = TRUE
                         /\ is_stopping' = TRUE
                         /\ pc' = "env_step"
                         /\ UNCHANGED replay_helper
                    ELSE /\ replay_helper' = increment_frame_index(rh)
                         /\ pc' = "env_step"
                         /\ UNCHANGED <<is_concluding_episode, is_stopping>>

\* lines 443-458, called at line 506. A read outside the dataset raises
\* IndexError, the assert of line 457 raises AssertionError.
get_next_action_replay ==
    LET rh == replay_helper IN
    IF ~InDataset(rh.dataset, rh.frame_index)
      THEN /\ pc' = "crashed"
           /\ UNCHANGED <<action, is_concluding_episode, is_stopping,
                          replay_helper>>
      ELSE /\ action' = [ref |-> FALSE, value |-> get_action_at_frame(rh)]
           /\ IF is_at_last_frame_in_dataset(rh)
                THEN /\ is_concluding_episode' = TRUE
                     /\ is_stopping' = TRUE
                     /\ pc' = "env_step"
                     /\ UNCHANGED replay_helper
                ELSE IF ~InDataset(rh.dataset, rh.frame_index + 1)
                  THEN /\ pc' = "crashed"
                       /\ UNCHANGED <<is_concluding_episode, is_stopping,
                                      replay_helper>>
                  ELSE IF is_at_last_frame_in_episode(rh)
                    THEN /\ is_concluding_episode' = TRUE
                         /\ replay_helper' = increment_frame_index(rh)
                         /\ pc' = "env_step"
                         /\ UNCHANGED is_stopping
                    ELSE /\ replay_helper' = increment_frame_index(rh)
                         /\ pc' = "env_step"
                         /\ UNCHANGED <<is_concluding_episode, is_stopping>>

get_next_action_teleop ==
    /\ IF teleoperation_action = NoAction
          THEN pc' = "crashed" /\ UNCHANGED action
          ELSE pc' = "env_step" /\ action' = [ref |-> TRUE, value |-> NoAction]
    /\ UNCHANGED <<is_concluding_episode, is_stopping, replay_helper>>

get_next_action_in_episode ==
    /\ pc = "get_next_action_in_episode"
    /\ IF replay_helper.present
          THEN get_next_action_replay
          ELSE get_next_action_teleop
    /\ UNCHANGED <<inputs, io_log, main_pc, dataset_counter, disk,
                   lerobot_dataset, listener_thread, teleoperation_action,
                   is_dropping_episode, accumulators, episode_counter,
                   step_counter, actions, timestamps, observations,
                   info_timestamp, env_time,
                   history_vars>>

\* lines 509-513: env.step(action=action) and env.render()
env_step ==
    /\ pc = "env_step"
    /\ applied' = Append(applied, ActionValue)
    /\ env_time' = env_time + 1
    /\ info_timestamp' = env_time + 1
    /\ steps_taken' = steps_taken + 1
    /\ pc' = "store_data"
    /\ UNCHANGED <<main_state, listener_thread, teleoperation_action, flags,
                   accumulators, episode_counter, step_counter, action, actions,
                   timestamps, observations, operator, phase, outcomes,
                   key_event_in_run,
                   episodes_started, end_episode, delete_pressed, pressed_in_episode,
                   presses>>

\* lines 516-521: deep copies of the action and the timestamp are appended
store_data ==
    /\ pc = "store_data"
    /\ observations' = Append(observations, deepcopy(EnvObservation, env_time))
    /\ actions' = Append(actions, deepcopy(action, teleoperation_action))
    /\ timestamps' = Append(timestamps, info_timestamp)
    /\ step_counter' = step_counter + 1
    /\ pc' = "inner_loop"
    /\ UNCHANGED <<main_state, listener_thread, teleoperation_action, flags,
                   accumulators, episode_counter, action, info_timestamp,
                   env_time, history_vars>>

\* mutant: the episode counter is advanced for a dropped episode too
if_is_dropping_episode_counted ==
    /\ pc = "if_is_dropping_episode"
    /\ IF is_dropping_episode
          THEN /\ pc' = "outer_loop"
               /\ phase' = "DROPPED"
               /\ outcomes' = Append(outcomes, [how |-> "DROPPED", steps |-> steps_taken])
               /\ episode_counter' = episode_counter + 1
          ELSE /\ pc' = "save_episode_data"
               /\ UNCHANGED <<phase, outcomes, episode_counter>>
    /\ UNCHANGED <<main_state, listener_thread, teleoperation_action, flags,
                   accumulators, step_counter, action, actions, timestamps,
                   observations,
                   info_timestamp, env_time, operator, applied, key_event_in_run,
                   episodes_started, end_episode, delete_pressed, steps_taken, pressed_in_episode,
                   presses>>

\* lines 523-524: if episode_state.is_dropping_episode: continue
if_is_dropping_episode ==
    /\ pc = "if_is_dropping_episode"
    /\ IF is_dropping_episode
          THEN /\ pc' = "outer_loop"
               /\ phase' = "DROPPED"
               /\ outcomes' = Append(outcomes, [how |-> "DROPPED", steps |-> steps_taken])
          ELSE /\ pc' = "save_episode_data"
               /\ UNCHANGED <<phase, outcomes>>
    /\ UNCHANGED <<main_state, listener_thread, teleoperation_action, flags,
                   accumulators, locals, operator, applied, key_event_in_run,
                   episodes_started, end_episode, delete_pressed,
                   steps_taken, pressed_in_episode,
                   presses>>

\* lines 126-171, called at line 528, and line 534. With num_steps = 0 the
\* writes to the last step raise (np.concatenate, next_done[-1],
\* timestamps[-1]) before anything is accumulated.
save_episode_data ==
    /\ pc = "save_episode_data"
    /\ IF step_counter = 0
          THEN /\ pc' = "crashed"
               /\ UNCHANGED <<accumulators, episode_counter, phase, outcomes>>
          ELSE /\ LET acc == saved(step_counter, episode_counter,
                                   Values(actions, teleoperation_action),
                                   timestamps, Accumulators)
                  IN /\ ep_dicts' = acc.ep_dicts
                     /\ episode_data_index' = acc.episode_data_index
                     /\ episode_fps' = acc.episode_fps
                     /\ id_from' = acc.id_from
                     /\ id_to' = acc.id_to
               /\ episode_counter' = episode_counter + 1
               /\ pc' = "outer_loop"
               /\ phase' = "RECORDED"
               /\ outcomes' = Append(outcomes, [how |-> "RECORDED", steps |-> steps_taken])
    /\ UNCHANGED <<main_state, listener_thread, teleoperation_action, flags,
                   step_counter, action, actions, timestamps, observations,
                   info_timestamp,
                   env_time, operator, applied, key_event_in_run,
                   episodes_started, end_episode, delete_pressed,
                   steps_taken, pressed_in_episode,
                   presses>>

\* lines 173-183, called at line 536, and the return to __main__. Without an
\* episode, concatenate_episodes and the mean of episode_fps (line 280) raise.
save_data_and_maybe_push_to_hub ==
    /\ pc = "save_data_and_maybe_push_to_hub"
    /\ IF ep_dicts = <<>>
          THEN /\ pc' = "crashed"
               /\ UNCHANGED <<io_log, disk, lerobot_dataset, main_pc, phase>>
          ELSE LET hf_dataset == construct_hf_dataset(ep_dicts) IN
               /\ disk' = [disk EXCEPT ![dataset_counter] = hf_dataset]
               /\ io_log' = FinalizationCalls
               /\ lerobot_dataset' =
                     IF main_pc = "teleop_robot_and_record_data"
                       THEN hf_dataset ELSE lerobot_dataset
               /\ main_pc' = NextMainPc
               /\ pc' = "idle"
               /\ phase' = "FINALIZED"
    /\ UNCHANGED <<inputs, dataset_counter, replay_helper, listener_thread,
                   teleoperation_action, flags, accumulators, locals, operator,
                   applied, outcomes, key_event_in_run, episodes_started,
                   end_episode, delete_pressed,
                   steps_taken, pressed_in_episode,
                   presses>>

----------------------------------------------------------------------------
(* Specifications *)

ControlLoop ==
    \/ begin_run
    \/ reset_is_stopping
    \/ outer_loop
    \/ set_up_next_episode
    \/ reset_is_dropping_episode
    \/ reset_is_concluding_episode
    \/ inner_loop
    \/ get_next_action_in_episode
    \/ env_step
    \/ store_data
    \/ if_is_dropping_episode
    \/ save_episode_data
    \/ save_data_and_maybe_push_to_hub

Main ==
    \/ set_up_teleop
    \/ teleop_robot_and_record_data
    \/ stop_teleoperation_fn
    \/ replay_dataset_actions_in_sim

LifecycleKeys ==
    \/ on_press_delete
    \/ on_press_home
    \/ on_press_end
    \/ on_press_second_write
    \/ on_release_esc

DirectionalKeys == \E key \in DirKeys : on_press_directional(key)

\* the program with an operator who uses the lifecycle keys only
Next == Main \/ ControlLoop \/ LifecycleKeys

Spec == Init /\ [][Next]_vars

\* the program with an operator who uses every key
NextKeys == Main \/ ControlLoop \/ LifecycleKeys \/ DirectionalKeys

KeysSpec == Init /\ [][NextKeys]_vars

\* the program with an operator who steers with the directional keys and
\* ends the recording with END
NextSteering ==
    \/ Main
    \/ ControlLoop
    \/ DirectionalKeys
    \/ on_press_end
    \/ on_press_second_write

InitSteering ==
    /\ InitProgram
    /\ keys_left = MaxEndKeys
    /\ dir_keys_left = MaxDirKeys

SteeringSpec == InitSteering /\ [][NextSteering]_vars

\* the program up to and within its first teleop episode (lines 583-521),
\* with an operator who steers and presses no lifecycle key
InitEpisode ==
    /\ InitProgram
    /\ keys_left = 0
    /\ dir_keys_left = MaxPresses

NextEpisode ==
    \/ set_up_teleop
    \/ teleop_robot_and_record_data
    \/ begin_run
    \/ reset_is_stopping
    \/ outer_loop
    \/ set_up_next_episode
    \/ reset_is_dropping_episode
    \/ reset_is_concluding_episode
    \/ inner_loop
    \/ get_next_action_in_episode
    \/ env_step
    \/ store_data
    \/ DirectionalKeys

EpisodeSpec == InitEpisode /\ [][NextEpisode]_vars

----------------------------------------------------------------------------
(* The program followed without an end: a teleop episode that has taken    *)
(* MaxSteps steps keeps stepping (lines 505-521) for as long as conclude   *)
(* is not set; the steps beyond the bound are taken but not counted.  The  *)
(* main thread and a key handler that has begun always get to run; key     *)
(* events are up to the operator.                                          *)

\* line 505, conclude not set, in a teleop episode past the bound
inner_loop_beyond_bound ==
    /\ pc = "inner_loop"
    /\ IsTeleoperating
    /\ ~is_concluding_episode
    /\ step_counter >= MaxSteps
    /\ pc' = "steps_beyond_bound"
    /\ UNCHANGED <<main_state, listener_thread, teleoperation_action, flags,
                   accumulators, locals, history_vars>>

\* lines 506-521, past the bound
steps_beyond_bound ==
    /\ pc = "steps_beyond_bound"
    /\ pc' = "inner_loop"
    /\ UNCHANGED <<main_state, listener_thread, teleoperation_action, flags,
                   accumulators, locals, history_vars>>

MainThread == Main \/ ControlLoop \/ inner_loop_beyond_bound \/ steps_beyond_bound

NextLive == MainThread \/ LifecycleKeys

LiveSpec ==
    /\ Init
    /\ [][NextLive]_vars
    /\ WF_vars(MainThread)
    /\ WF_vars(on_press_second_write)

----------------------------------------------------------------------------
(* The replay runs of __main__, started from any recording the teleop run  *)
(* can leave behind: the state is that of line 593, after the teleop run   *)
(* has saved its episodes and returned and the listener has been stopped   *)
(* (a key handler may still be between its two writes).                    *)

\* action vectors the operator can bring about
ActionPool == {StartAction, Nudge(StartAction, "up")}

\* the actions of one recorded episode
EpisodeActions == UNION {[1..n -> ActionPool] : n \in 1..MaxSteps}

\* the recorded episodes of a teleop run, each by its actions
Recordings == UNION {[1..m -> EpisodeActions] : m \in 1..MaxReplayEpisodes}

\* the environment's timestamps of an episode of n steps
Clock(n) == [i \in 1..n |-> i]

\* the accumulators after the first k episodes of rec were saved
RECURSIVE SavedUpTo(_, _)
SavedUpTo(rec, k) ==
    IF k = 0 THEN NoEpisodes
    ELSE saved(Len(rec[k]), k - 1, rec[k], Clock(Len(rec[k])), SavedUpTo(rec, k - 1))

InitReplay ==
    \E rec \in Recordings :
      LET acc  == SavedUpTo(rec, Len(rec))
          d    == construct_hf_dataset(acc.ep_dicts)
          last == rec[Len(rec)]
      IN /\ teleop_method = "keyboard"
         /\ push_to_hub = FALSE
         /\ io_log = FinalizationCalls
         /\ main_pc = "replay_from_disk"
         /\ pc = "idle"
         /\ listener = "stopped"
         /\ hpc \in {"idle", "delete_concluding", "end_stopping"}
         /\ teleoperation_action = last[Len(last)]
         /\ is_dropping_episode = (hpc = "delete_concluding")
         /\ is_concluding_episode = TRUE
         /\ is_stopping = TRUE
         /\ dataset_counter = 1
         /\ ep_dicts = acc.ep_dicts
         /\ episode_data_index = acc.episode_data_index
         /\ episode_fps = acc.episode_fps
         /\ id_from = acc.id_from
         /\ id_to = acc.id_to
         /\ replay_helper = NoReplayHelper
         /\ episode_counter = Len(rec)
         /\ step_counter = Len(last)
         /\ action = [ref |-> TRUE, value |-> NoAction]
         /\ actions = [i \in 1..Len(last) |-> [ref |-> FALSE, value |-> last[i]]]
         /\ timestamps = Clock(Len(last))
         /\ observations = [i \in 1..Len(last) |-> [ref |-> FALSE, value |-> i]]
         /\ info_timestamp = Len(last)
         /\ env_time = Len(last)
         /\ disk = [k \in 1..3 |-> IF k = 1 THEN d ELSE EmptyDataset]
         /\ lerobot_dataset = d
         /\ keys_left = 0
         /\ dir_keys_left = 0
         /\ phase = "FINALIZED"
         /\ applied = d.action
         /\ outcomes = [i \in 1..Len(rec) |->
                           [how |-> "RECORDED", steps |-> Len(rec[i])]]
         /\ key_event_in_run = TRUE
         /\ episodes_started = Len(rec)
         /\ end_episode = 0
         /\ delete_pressed = (hpc = "delete_concluding")
         /\ steps_taken = Len(last)
         /\ pressed_in_episode = TRUE
         /\ presses = [NoPresses EXCEPT !["up"] = last[Len(last)][2] - StartAction[2]]

NextReplay ==
    \/ replay_dataset_actions_in_sim
    \/ ControlLoop
    \/ on_press_second_write

ReplaySpec == InitReplay /\ [][NextReplay]_vars

\* the replay runs when no key handler was cut off by listener.stop(), so
\* that no key event reaches them, with a main thread that keeps running
\* (nothing in lines 593-603 or in the control loop waits)
InitQuietReplay == InitReplay /\ hpc = "idle"

NextQuietReplay == replay_dataset_actions_in_sim \/ ControlLoop

QuietReplaySpec ==
    /\ InitQuietReplay
    /\ [][NextQuietReplay]_vars
    /\ WF_vars(NextQuietReplay)

----------------------------------------------------------------------------
(* The run as it was driven: the concluded episodes that were retained *)

IsRecorded(o) == o.how = "RECORDED"

Retained == SelectSeq(outcomes, IsRecorded)

RECURSIVE SumSteps(_)
SumSteps(os) == IF os = <<>> THEN 0 ELSE os[1].steps + SumSteps(Tail(os))

\* the dataset the run that just finalized wrote
WrittenDataset == disk[dataset_counter]

----------------------------------------------------------------------------
(* C1: the from/to ranges partition the consolidated step sequence: there  *)
(* is one range per retained episode, in recording order, the first starts *)
(* at 0, range i is as long as retained episode i had steps, and each      *)
(* range starts where the one before it ends.                              *)
C1_RangesPartition ==
    LET from == episode_data_index.from
        to   == episode_data_index.to
        n    == Len(Retained)
    IN /\ Len(from) = n
       /\ Len(to) = n
       /\ n > 0 => from[1] = 0
       /\ \A i \in 1..n : to[i] - from[i] = Retained[i].steps
       /\ \A i \in 1..(n - 1) : from[i + 1] = to[i]
       /\ id_from = SumSteps(Retained)

\* two retained episodes of 2 and 1 steps give the ranges [0,2) and [2,3)
C1_Witness ==
    /\ Len(Retained) = 2
    /\ Retained[1].steps = 2
    /\ Retained[2].steps = 1
    /\ episode_data_index = [from |-> <<0, 2>>, to |-> <<2, 3>>]

(* C2: when a run has finalized, every column of the dataset it wrote has  *)
(* as many rows as the retained episodes had simulation steps together,    *)
(* which is the last "to" index; the steps of dropped episodes add none.   *)
C2_RowsAtFinalization ==
    phase = "FINALIZED" =>
        LET d     == WrittenDataset
            total == SumSteps(Retained)
            to    == episode_data_index.to
        IN /\ Len(d.action) = total
           /\ Len(d.episode_index) = total
           /\ Len(d.frame_index) = total
           /\ Len(d.timestamp) = total
           /\ Len(d.next_done) = total
           /\ NumSamples(d) = total
           /\ to # <<>>
           /\ to[Len(to)] = total
           /\ id_to = total

\* a finalized run with a dropped episode that had steps and two retained ones
C2_Witness ==
    /\ phase = "FINALIZED"
    /\ Len(Retained) = 2
    /\ \E i \in 1..Len(outcomes) :
          outcomes[i].how = "DROPPED" /\ outcomes[i].steps >= 1
    /\ NumSamples(WrittenDataset) = SumSteps(Retained)

(* C3: the step that discards an episode (the drop flag is set when the    *)
(* loop looks at it after the episode concluded) changes no accumulator    *)
(* and not the episode counter, and the retained episodes are numbered     *)
(* 0, 1, ..., n-1 in recording order whatever was dropped between them.    *)
C3_DropAddsNothing ==
    /\ [][(pc = "if_is_dropping_episode" /\ is_dropping_episode /\ pc' # pc)
             => UNCHANGED <<accumulators, episode_counter>>]_vars
    /\ [](/\ Len(ep_dicts) = Len(Retained)
          /\ pc \notin {"idle", "start"} => episode_counter = Len(Retained)
          /\ \A i \in 1..Len(ep_dicts) :
                 /\ Len(ep_dicts[i].episode_index) = Retained[i].steps
                 /\ \A k \in 1..Len(ep_dicts[i].episode_index) :
                        ep_dicts[i].episode_index[k] = i - 1)

\* retained, dropped, retained: the second retained episode is episode 1
C3_Witness ==
    /\ Len(outcomes) = 3
    /\ outcomes[1].how = "RECORDED"
    /\ outcomes[2].how = "DROPPED"
    /\ outcomes[2].steps >= 1
    /\ outcomes[3].how = "RECORDED"
    /\ Len(ep_dicts) = 2
    /\ ep_dicts[2].episode_index[1] = 1

(* C4: a replay run during which no key handler wrote episode state ends   *)
(* with as many retained episodes as its source dataset has, none dropped, *)
(* episode i with as many steps as episode i of the source, and the        *)
(* actions it gave to env.step are the stored actions in stored order.     *)
SourceEpisodes(d) == {d.episode_index[k] : k \in 1..NumSamples(d)}

SourceSteps(d, i) == Cardinality({k \in 1..NumSamples(d) : d.episode_index[k] = i})

C4_ReplayReproducesEpisodes ==
    (phase = "FINALIZED" /\ replay_helper.present /\ ~key_event_in_run) =>
        LET src == replay_helper.dataset
        IN /\ Len(ep_dicts) = Cardinality(SourceEpisodes(src))
           /\ Len(outcomes) = Len(ep_dicts)
           /\ \A i \in 1..Len(ep_dicts) :
                  /\ i - 1 \in SourceEpisodes(src)
                  /\ outcomes[i] = [how |-> "RECORDED", steps |-> SourceSteps(src, i - 1)]
                  /\ Len(ep_dicts[i].action) = SourceSteps(src, i - 1)
           /\ applied = src.action

\* a finished replay of episodes of 2 steps and 1 step with differing actions
C4_Witness ==
    /\ phase = "FINALIZED"
    /\ replay_helper.present
    /\ ~key_event_in_run
    /\ replay_helper.dataset.episode_index = <<0, 0, 1>>
    /\ Len(ep_dicts) = 2
    /\ Len(applied) = 3
    /\ applied[1] # applied[2]

\* a call of get_next_action_in_episode in replay, the cursor on a stored step
ReplayCall ==
    /\ pc = "get_next_action_in_episode"
    /\ replay_helper.present
    /\ InDataset(replay_helper.dataset, replay_helper.frame_index)
    /\ pc' # pc

(* C6: in replay, a call that reads the last stored step sets conclude and *)
(* stop; a call that reads another step whose successor has a different    *)
(* episode index sets conclude, leaves stop as it was and moves the cursor *)
(* to the successor; any other call changes neither flag.                  *)
C6_ReplayFlags ==
    [][ReplayCall =>
         LET d  == replay_helper.dataset
             fi == replay_helper.frame_index
         IN /\ pc' = "env_step"
            /\ IF fi = NumSamples(d) - 1
                  THEN is_concluding_episode' /\ is_stopping'
                  ELSE IF d.episode_index[fi + 1] # d.episode_index[fi + 2]
                    THEN /\ is_concluding_episode'
                         /\ is_stopping' = is_stopping
                         /\ replay_helper'.frame_index = fi + 1
                    ELSE /\ is_concluding_episode' = is_concluding_episode
                         /\ is_stopping' = is_stopping]_vars

\* after a call at an episode boundary: conclude is set, stop is not, and
\* the cursor is on the first step of the next episode
C6_Witness ==
    /\ replay_helper.present
    /\ pc = "env_step"
    /\ is_concluding_episode
    /\ ~is_stopping
    /\ replay_helper.frame_index >= 1
    /\ replay_helper.dataset.episode_index[replay_helper.frame_index]
          # replay_helper.dataset.episode_index[replay_helper.frame_index + 1]

(* C7 as stated: every call in replay returns the action stored at the     *)
(* cursor and then advances the cursor by exactly one.                     *)
C7_AlwaysAdvances ==
    [][ReplayCall =>
         /\ action'.value = replay_helper.dataset.action[replay_helper.frame_index + 1]
         /\ replay_helper'.frame_index = replay_helper.frame_index + 1]_vars

(* C7 amended: every call in replay returns the action stored at the       *)
(* cursor; it then advances the cursor by exactly one, except on the last  *)
(* stored step, where the cursor stays.                                    *)
C7_AdvancesUnlessLast ==
    [][ReplayCall =>
         LET d  == replay_helper.dataset
             fi == replay_helper.frame_index
         IN /\ pc' = "env_step"
            /\ ~action'.ref
            /\ action'.value = d.action[fi + 1]
            /\ replay_helper'.dataset = d
            /\ replay_helper'.frame_index =
                  IF fi = NumSamples(d) - 1 THEN fi ELSE fi + 1]_vars

\* after the call on the last of several stored steps: the last action is
\* held and the cursor has not moved past it
C7_Witness ==
    /\ replay_helper.present
    /\ pc = "env_step"
    /\ NumSamples(replay_helper.dataset) >= 2
    /\ replay_helper.frame_index = NumSamples(replay_helper.dataset) - 1
    /\ is_stopping
    /\ action = [ref |-> FALSE,
                 value |-> replay_helper.dataset.action[NumSamples(replay_helper.dataset)]]
    /\ action.value # replay_helper.dataset.action[1]

(* C8: in a teleop run, once ESC has been released (the stop flag is set)  *)
(* while an episode is running and not yet concluded, the episode ends and *)
(* the run reaches                                                         *)
(* STOPPED and then FINALIZED (the main thread keeps running, no further   *)
(* key event can come: on_release has returned False).                     *)
EscapeReleasedMidEpisode ==
    /\ listener = "returned"
    /\ is_stopping
    /\ main_pc = "teleop_robot_and_record_data"
    /\ pc \in InnerLoopPcs
    /\ step_counter >= 1
    /\ ~is_concluding_episode

C8_EscapeStopsRun == EscapeReleasedMidEpisode ~> (phase = "FINALIZED")

(* C9: once END has been pressed in a running teleop episode in which      *)
(* DELETE is not pressed, no further episode is set up and that episode,   *)
(* once concluded, is RECORDED.                                            *)
C9_EndSavesAndStops ==
    end_episode # 0 =>
        /\ episodes_started = end_episode
        /\ Len(outcomes) >= end_episode => outcomes[end_episode].how = "RECORDED"

(* C10: every run moves through the top-level state machine only:          *)
(* STARTING, then episodes that each end DROPPED or RECORDED, then STOPPED *)
(* when the loop has seen the stop flag, then FINALIZED, which ends the    *)
(* run; no run is abandoned on the way.                                    *)
StateMachine ==
    { <<"NOT_RUNNING", "STARTING">>, <<"FINALIZED", "STARTING">>,
      <<"STARTING", "RUNNING_EPISODE">>,
      <<"RUNNING_EPISODE", "DROPPED">>, <<"RUNNING_EPISODE", "RECORDED">>,
      <<"DROPPED", "RUNNING_EPISODE">>, <<"RECORDED", "RUNNING_EPISODE">>,
      <<"DROPPED", "STOPPED">>, <<"RECORDED", "STOPPED">>,
      <<"STOPPED", "FINALIZED">> }

C10_StateMachine ==
    /\ [][phase' # phase => <<phase, phase'>> \in StateMachine]_vars
    /\ [](pc # "crashed")

(* C5: in every saved episode "done" is true for the last step and false   *)
(* for every other step; in the dataset a finalized run wrote, the number  *)
(* of true "done" entries is the number of retained episodes, and they sit *)
(* at the rows to[i] - 1 (rows counted from 0).                            *)
C5_DoneOnLastStep ==
    /\ \A i \in 1..Len(ep_dicts) :
          LET done == ep_dicts[i].next_done
          IN /\ Len(done) = Retained[i].steps
             /\ \A k \in 1..Len(done) : done[k] = (k = Len(done))
    /\ phase = "FINALIZED" =>
          LET done == WrittenDataset.next_done
              to   == episode_data_index.to
          IN /\ Cardinality({k \in 1..Len(done) : done[k]}) = Len(Retained)
             /\ {k \in 1..Len(done) : done[k]} = {to[i] : i \in 1..Len(to)}

\* a finalized run whose two episodes had 2 steps and 1 step
C5_Witness ==
    /\ phase = "FINALIZED"
    /\ Len(Retained) = 2
    /\ Retained[1].steps = 2
    /\ WrittenDataset.next_done = <<FALSE, TRUE, TRUE>>

----------------------------------------------------------------------------
\* a directional key press was handled: the handler ran on a vector
DirectionalPressHandled ==
    /\ dir_keys_left' = dir_keys_left - 1
    /\ teleoperation_action # NoAction

\* the components in which two vectors differ
Changed(v, w) == {c \in 1..4 : v[c] # w[c]}

(* C11: a directional key press handled on the action vector changes       *)
(* exactly one of its components, x, y or z by one hundredth or the        *)
(* gripper by ten hundredths, and changes none of the flags drop, conclude *)
(* and stop; the sign and the component are those of the key, and nothing  *)
(* bounds the value: after any presses the vector is the start action      *)
(* moved by one increment per press (right/left on x, up/down on y,        *)
(* page_up/page_down on z, shift/cmd on the gripper).                      *)
C11_DirectionalKeyEffect ==
    /\ [][DirectionalPressHandled =>
            /\ teleoperation_action' # NoAction
            /\ Cardinality(Changed(teleoperation_action, teleoperation_action')) = 1
            /\ \A c \in Changed(teleoperation_action, teleoperation_action') :
                   LET d == teleoperation_action'[c] - teleoperation_action[c]
                   IN IF c = 4 THEN d \in {-10, 10} ELSE d \in {-1, 1}
            /\ UNCHANGED <<is_dropping_episode, is_concluding_episode,
                           is_stopping>>]_vars
    /\ [](teleoperation_action # NoAction =>
            teleoperation_action =
               << 0 + presses["right"] - presses["left"],
                  14 + presses["up"] - presses["down"],
                  17 + presses["page_up"] - presses["page_down"],
                  0 + 10 * (presses["shift"] - presses["cmd"]) >>)

\* two presses of UP have moved y by two increments, nothing else
C11_Witness ==
    /\ presses["up"] = 2
    /\ teleoperation_action = <<0, 16, 17, 0>>
    /\ pc \in InnerLoopPcs

(* C12: what has been recorded for a step stays as it was recorded: no     *)
(* step of the program, be it a key handler or a simulation step, changes  *)
(* the action or the observation that an episode buffer holds for a step   *)
(* already recorded (the buffers are replaced by new ones only when the    *)
(* next episode is set up).                                                *)
C12_RecordedStepsKeep ==
    [][\A i \in 1..Len(actions) :
          i <= Len(actions') =>
             /\ ValueIn(actions'[i], teleoperation_action')
                   = ValueIn(actions[i], teleoperation_action)
             /\ ValueIn(observations'[i], env_time')
                   = ValueIn(observations[i], env_time)]_vars

\* the first step is recorded, then a key moved the shared vector and the
\* environment stepped again: the buffers still hold the first step
C12_Witness ==
    /\ IsTeleoperating
    /\ pc = "store_data"
    /\ Len(actions) = 1
    /\ Len(observations) = 1
    /\ env_time = 2
    /\ ValueIn(observations[1], env_time) = 1
    /\ ValueIn(actions[1], teleoperation_action) = StartAction
    /\ teleoperation_action # StartAction

----------------------------------------------------------------------------
Uploads == {"push_dataset", "push_meta_data", "push_videos"}

\* the places of the run's call log that hold the call <<what, where>>
CallsOf(what, where) ==
    {i \in 1..Len(io_log) : io_log[i] = <<what, where>>}

(* C13: a run uploads nothing when --push-to-hub was not given. When it    *)
(* was given, the finalized run has uploaded the dataset, the metadata and *)
(* the videos twice each, once under "main" and once under the declared    *)
(* revision, and nothing else; and whenever something is uploaded, the     *)
(* dataset and the metadata were saved to local storage before it.         *)
C13_Uploads ==
    /\ ~push_to_hub => \A i \in 1..Len(io_log) : io_log[i][1] \notin Uploads
    /\ (push_to_hub /\ phase = "FINALIZED") =>
          /\ \A what \in Uploads :
                /\ Cardinality(CallsOf(what, "main")) = 1
                /\ Cardinality(CallsOf(what, "revision")) = 1
          /\ Cardinality({i \in 1..Len(io_log) : io_log[i][1] \in Uploads}) = 6
    /\ \A i \in 1..Len(io_log) :
          io_log[i][1] \in Uploads =>
             /\ \E j \in 1..(i - 1) : io_log[j] = <<"save_to_disk", "local">>
             /\ \E j \in 1..(i - 1) : io_log[j] = <<"save_meta_data", "local">>

\* a finalized teleop run with publishing requested: six uploads after the
\* two local saves
C13_Witness ==
    /\ push_to_hub
    /\ phase = "FINALIZED"
    /\ main_pc = "stop_teleoperation_fn"
    /\ Len(io_log) = 9
    /\ io_log[2] = <<"save_to_disk", "local">>
    /\ io_log[4] = <<"push_dataset", "main">>

(* C14: with a teleop method other than "keyboard" the program gets no     *)
(* further than set_up_teleop, which raises: the key listener is never     *)
(* started, the run index stays 0 (no output directory is made), no run    *)
(* of the control loop begins (no environment is made) and no episode is   *)
(* set up.                                                                 *)
C14_UnsupportedMethodAborts ==
    teleop_method # "keyboard" =>
        /\ main_pc \in {"set_up_teleop", "aborted"}
        /\ listener = "not_started"
        /\ hpc = "idle"
        /\ dataset_counter = 0
        /\ pc = "idle"
        /\ phase = "NOT_RUNNING"
        /\ episodes_started = 0
        /\ io_log = <<>>
        /\ teleoperation_action = NoAction

\* the start-up with an unsupported method has raised
C14_Witness ==
    /\ teleop_method = "joystick"
    /\ main_pc = "aborted"
    /\ listener = "not_started"

(* C15: a replay run that has begun and that no key event reaches comes to *)
(* its end: it reaches FINALIZED, it has passed through STOPPED, and it    *)
(* has given env.step exactly as many actions as its source dataset has    *)
(* stored steps, however the steps are divided into episodes.              *)
C15_ReplayTerminates ==
    /\ (replay_helper.present /\ pc = "reset_is_stopping")
          ~> (phase = "FINALIZED" \/ key_event_in_run)
    /\ [](replay_helper.present /\ ~key_event_in_run =>
            /\ Len(applied) <= NumSamples(replay_helper.dataset)
            /\ phase \in {"STOPPED", "FINALIZED"} =>
                   Len(applied) = NumSamples(replay_helper.dataset))
    /\ [][(replay_helper.present /\ ~key_event_in_run' /\ phase' = "FINALIZED"
            /\ phase # "FINALIZED") => phase = "STOPPED"]_vars

\* the replay from memory of a recording whose last episode has one step
\* has finalized after three steps
C15_Witness ==
    /\ replay_helper.present
    /\ ~key_event_in_run
    /\ main_pc = "done"
    /\ phase = "FINALIZED"
    /\ replay_helper.dataset.episode_index = <<0, 0, 1>>
    /\ Len(applied) = 3
    /\ steps_taken = 1

----------------------------------------------------------------------------
\* the loop is at line 505 for the first time in the episode, and every key
\* of the run so far was pressed before the episode was set up
EpisodeStartsUntouched ==
    /\ pc = "inner_loop"
    /\ steps_taken = 0
    /\ ~pressed_in_episode

(* C16: when an episode starts and no key was pressed since it was set up, *)
(* the drop and conclude flags are false and the action vector is the      *)
(* start action (0, 0.14, 0.17, 0) in teleop and none in replay, whatever  *)
(* keys were pressed while the previous episode was saved or the           *)
(* environment was reset; and the stop flag is set back to false at line   *)
(* 490 only.                                                               *)
C16_EpisodeStartsClean ==
    /\ [](EpisodeStartsUntouched =>
            /\ ~is_dropping_episode
            /\ ~is_concluding_episode
            /\ teleoperation_action =
                  IF IsTeleoperating THEN StartAction ELSE NoAction)
    /\ [][(is_stopping /\ ~is_stopping') => pc = "reset_is_stopping"]_vars

----------------------------------------------------------------------------
\* the number of the run __main__ is in: teleop, replay from disk, replay
\* from memory
RunNumber ==
    CASE main_pc = "teleop_robot_and_record_data" -> 1
      [] main_pc = "replay_from_disk"             -> 2
      [] main_pc = "replay_from_memory"           -> 3
      [] OTHER                                    -> 0

RunInProgress == pc \notin {"idle", "start", "crashed"}

(* C17: every start of a run adds exactly one to the run index and empties *)
(* every accumulator; the k-th run of the program has run index k and      *)
(* writes the dataset stored under k and no other; the dataset it writes   *)
(* holds the retained episodes of this run only, numbered from 0, with the *)
(* first range starting at 0; and the replay started without a source      *)
(* reads the dataset stored under k-1.                                     *)
C17_RunsIsolated ==
    /\ [][(pc = "start" /\ pc' # pc) =>
            /\ dataset_counter' = dataset_counter + 1
            /\ ep_dicts' = <<>>
            /\ episode_data_index' = [from |-> <<>>, to |-> <<>>]
            /\ episode_fps' = <<>>
            /\ id_from' = 0
            /\ id_to' = 0]_vars
    /\ [][\A k \in DOMAIN disk :
            disk'[k] # disk[k] => (k = dataset_counter /\ k = RunNumber)]_vars
    /\ [](RunInProgress => dataset_counter = RunNumber)
    /\ [](episode_data_index.from # <<>> => episode_data_index.from[1] = 0)
    /\ [](phase = "FINALIZED" =>
            LET d == WrittenDataset
            IN /\ NumSamples(d) = SumSteps(Retained)
               /\ d.episode_index[1] = 0
               /\ {d.episode_index[i] : i \in 1..NumSamples(d)}
                     = 0..(Len(Retained) - 1))
    /\ [](RunInProgress /\ main_pc = "replay_from_disk" =>
            /\ replay_helper.present
            /\ replay_helper.dataset = disk[dataset_counter - 1]
            /\ dataset_counter - 1 = 1)

\* the third run has written two episodes under run index 3, beside the
\* datasets of runs 1 and 2
C17_Witness ==
    /\ main_pc = "done"
    /\ dataset_counter = 3
    /\ episode_data_index.from = <<0, 2>>
    /\ NumSamples(disk[3]) = 3
    /\ NumSamples(disk[2]) = 3
    /\ NumSamples(disk[1]) = 3

(* C18: whenever the control loop calls save_episode_data (line 528), the  *)
(* episode it hands over has at least one step, whenever the key events    *)
(* came.                                                                   *)
C18_SavedEpisodeHasSteps ==
    pc = "save_episode_data" =>
        /\ step_counter >= 1
        /\ Len(actions) >= 1
        /\ Len(timestamps) >= 1

(* C20: whenever the control loop calls save_data_and_maybe_push_to_hub    *)
(* (line 536), at least one episode of the run has been retained, whatever *)
(* keys stopped the run.                                                   *)
C20_FinalizationHasEpisode ==
    pc = "save_data_and_maybe_push_to_hub" =>
        /\ Len(ep_dicts) >= 1
        /\ Len(episode_fps) >= 1
        /\ Len(Retained) >= 1

(* C19: in a teleop episode, the action the episode buffer holds for a     *)
(* step is the action that was given to env.step in that step, whenever    *)
(* the directional keys were pressed.                                      *)
C19_RecordedIsApplied ==
    IsTeleoperating =>
        \A i \in 1..Len(actions) :
            ValueIn(actions[i], teleoperation_action)
               = applied[Len(applied) - steps_taken + i]

----------------------------------------------------------------------------
\* a call of get_next_action_in_episode in replay, wherever the cursor is
AnyReplayCall ==
    /\ pc = "get_next_action_in_episode"
    /\ replay_helper.present
    /\ pc' # pc

(* C21: in a replay run the source dataset has at least one stored step    *)
(* and the cursor stays within 0..N-1; no call reads a step outside the    *)
(* dataset (a call on the last stored step does not read the successor, a  *)
(* call on any other step finds the successor at cursor+1 <= N-1), and no  *)
(* call moves the cursor past the last stored step.                        *)
C21_CursorInRange ==
    /\ [](replay_helper.present =>
            /\ NumSamples(replay_helper.dataset) >= 1
            /\ replay_helper.frame_index >= 0
            /\ replay_helper.frame_index <= NumSamples(replay_helper.dataset) - 1)
    /\ [][AnyReplayCall =>
            LET n  == NumSamples(replay_helper.dataset)
                fi == replay_helper.frame_index
            IN /\ pc' = "env_step"
               /\ fi # n - 1 => fi + 1 <= n - 1
               /\ fi = n - 1 => replay_helper'.frame_index = fi
               /\ replay_helper'.frame_index <= n - 1]_vars

\* the call on the last stored step, which is alone in its episode, has
\* returned: the cursor is still on it
C21_Witness ==
    /\ replay_helper.present
    /\ pc = "env_step"
    /\ replay_helper.dataset.episode_index = <<0, 0, 1>>
    /\ replay_helper.frame_index = 2
    /\ steps_taken = 0
    /\ episodes_started = 2

----------------------------------------------------------------------------
\* the listener thread takes a directional key event and runs on_press
DirectionalHandlerRuns == dir_keys_left' = dir_keys_left - 1

(* C22: whenever the handler of a directional key runs, the shared action  *)
(* vector is initialised, so the handler never fails; the listener is not  *)
(* running while a replay run is prepared or under way; and no key handler *)
(* writes episode state during a replay run.                               *)
C22_HandlerFindsVector ==
    /\ [][DirectionalHandlerRuns => teleoperation_action # NoAction]_vars
    /\ [](listener # "failed")
    /\ [](replay_helper.present => listener # "running")
    /\ [](replay_helper.present /\ pc \notin {"idle", "start"}
            => ~key_event_in_run)


=============================================================================
